---- MODULE Spec2Model ----
(***************************************************************************)
(* Model of romkatv::ActionChain (the version with caller-passed Mem).     *)
(* Pointers are slab addresses; a Work node lives in a slab, and a slab    *)
(* handed back through a Mem is reused for a later node.  Every atomic     *)
(* exchange is one step, together with the thread-local code around it:    *)
(* a step runs from just after one exchange of the thread to just after    *)
(* its next one.  An action is therefore in progress while its executor    *)
(* is at "invoking" (at "slow" in the out-of-line loop that loads next_    *)
(* before it exchanges, where the load is a step too).  The asserts are    *)
(* compiled out (-DNDEBUG): a failing one is recorded in `failed`, not     *)
(* fatal.                                                                  *)
(***************************************************************************)
EXTENDS Integers, Sequences, FiniteSets, TLC

\* ---- bounds ----
\* Run calls made in all; each may come from a thread of its own
MaxActions == 3

\* ---- program constants ----
NULL == 0
Sealed == 0 - 1

Main == 0
Threads == 1..MaxActions
Procs == {Main} \cup Threads
NSlabs == MaxActions + 1
Slabs == 1..NSlabs
NextVals == {NULL, Sealed} \cup Slabs
Sentinel == <<Main, 0>>
Actions == {Sentinel} \cup (Threads \X (1..MaxActions))
Variants == {"RunAll", "RunAllSlow"}

\* The forms of a call:
\*   threaded   mem = chain.Run(std::move(mem), action);
\*   plain      chain.Run(action);
\*   assign     mem = chain.Run(action);
Styles == {"threaded", "plain", "assign"}

VARIABLES
  variant,    \* which executor loop the build has
  pc,         \* position of every thread
  tail,       \* ActionChain::tail_
  next,       \* Work::next_ of the node in each slab
  live,       \* lifetime of the Work object in each slab: raw, live, dead
  act,        \* the action stored in the node of each slab
  heap,       \* slabs handed out by operator new and not yet deleted
  nAlloc, nFree,
  mem,        \* each thread's Mem (p_)
  runs,       \* Run calls started by each thread
  how,        \* the form of the Run call each thread is in
  work, prev, w, ret,   \* locals of Run / ContinueWith / RunAll
  enq,        \* actions in tail_.exchange order
  log,        \* actions in completion order
  obs,        \* what ContinueWith observed in the Run call of each action
  execIn,     \* the Run call (by its action) inside which each action ran
  destroyedBy,\* per node: the Destroy calls made on it
  threaded,   \* the thread has threaded its one Mem through every call so far
  failed      \* asserts that would have failed, and undefined behaviour

shared == <<tail, next, live, act, heap, nAlloc, nFree>>
locals == <<work, prev, w, ret, mem, runs, how>>
hist == <<enq, log, obs, execIn, destroyedBy, threaded, failed>>
vars == <<variant, pc, shared, locals, hist>>

Cur(t) == <<t, runs[t]>>

\* the Run calls made so far, each named by its action
Submitted == {a \in Actions : a # Sentinel /\ a[2] <= runs[a[1]]}

NoRun == <<Main, 1>>

\* ---- storage ----

\* mutant: a producer retries its exchange until the predecessor is sealed
ObservedNextWhenSealed(s) ==
  IF /\ \E t \in Threads : pc[t] = "continue_with" /\ prev[t] = s
     /\ ~ \E p \in Procs : pc[p] = "invoking" /\ w[p] = s
    THEN {next[s]} \cap {Sealed}
    ELSE {next[s]}

\* the value an access to next_ of the node in slab s can yield: reading a
\* destroyed node is undefined behaviour
ObservedNext(s) == IF live[s] = "live" THEN {next[s]} ELSE NextVals

Touch(s) == IF live[s] = "live" THEN {} ELSE {"use_after_destroy"}

\* ::operator new(kAllocSize): slabs are interchangeable, so the allocator
\* is taken to hand out the lowest free address
New(h) == CHOOSE s \in Slabs \ h : \A r \in Slabs \ h : s <= r

\* ::operator delete(p, kAllocSize)
Delete(h, s) == h \ {s}

DeleteFault(h, s) == IF s \in h THEN {} ELSE {"bad_delete"}

\* Work::Destroy(): the assert, then ~Work()
DestroyFault(s, nx) ==
  (IF nx = Sealed THEN {} ELSE {"Destroy_assert"})
  \cup (IF live[s] = "live" THEN {} ELSE {"double_destroy"})

DestroyRec(s, p, path, seen) ==
  [destroyedBy EXCEPT ![act[s]] = Append(@, <<p, path, seen>>)]

Kind(v) == IF v = NULL THEN "NULL" ELSE IF v = Sealed THEN "SEALED" ELSE "succ"

\* ---- Mem ----

\* Mem::~Mem()
MemDtor(h, p) == IF p # NULL THEN Delete(h, p) ELSE h

\* mutant: the assignment leaves the slot as it was
MemAssignKeep(held, other) == held

\* Mem::operator=(Mem&&): the slot takes the other's slab
MemAssign(held, other) == other

\* mutant: Release hands the slab out and keeps it
ReleaseKeep(held) == held

\* Mem::Release()
Release(held) == NULL

\* the chain under construction: tail_ initialised, RunAll about to run
Constructing ==
  /\ pc = [p \in Procs |-> IF p = Main THEN "invoking" ELSE "idle"]
  /\ tail = 1
  /\ next = [s \in Slabs |-> NULL]
  /\ live = [s \in Slabs |-> IF s = 1 THEN "live" ELSE "raw"]
  /\ act = [s \in Slabs |-> Sentinel]
  /\ heap = {1}
  /\ nAlloc = 1
  /\ nFree = 0
  /\ mem = [t \in Threads |-> NULL]
  /\ runs = [p \in Procs |-> 0]
  /\ how = [t \in Threads |-> "none"]
  /\ work = [p \in Procs |-> NULL]
  /\ prev = [p \in Procs |-> NULL]
  /\ w = [p \in Procs |-> IF p = Main THEN 1 ELSE NULL]
  /\ ret = [p \in Procs |-> NULL]
  /\ enq = <<>>
  /\ log = <<>>
  /\ obs = [a \in Actions |-> "none"]
  /\ execIn = [a \in Actions |-> NoRun]
  /\ destroyedBy = [a \in Actions |-> <<>>]
  /\ threaded = [t \in Threads |-> TRUE]
  /\ failed = {}

Init == variant \in Variants /\ Constructing

\* ---- ActionChain::Run, through the exchange on tail_ ----

\* mutant: the thread loads tail_ and leaves it as it was
TailExchangeLoadOnly(old, new) == old

\* what tail_ holds after tail_.exchange(work) returned `old`
TailExchange(old, new) == new

\* Threads are numbered in the order of their first call.
Run(t, st) ==
  /\ pc[Main] = "constructed"
  /\ pc[t] = "idle"
  /\ \A u \in Threads : u < t => runs[u] > 0
  /\ Cardinality(Submitted) < MaxActions
  /\ LET p == IF st = "threaded" /\ mem[t] # NULL THEN mem[t] ELSE New(heap)
     IN  /\ heap' = heap \cup {p}
         /\ nAlloc' = IF p \in heap THEN nAlloc ELSE nAlloc + 1
         /\ live' = [live EXCEPT ![p] = "live"]
         /\ next' = [next EXCEPT ![p] = NULL]
         /\ act' = [act EXCEPT ![p] = <<t, runs[t] + 1>>]
         /\ work' = [work EXCEPT ![t] = p]
         /\ tail' = TailExchange(tail, p)
  /\ prev' = [prev EXCEPT ![t] = tail]
  /\ mem' = [mem EXCEPT ![t] = IF st = "threaded" THEN Release(@) ELSE @]
  /\ runs' = [runs EXCEPT ![t] = @ + 1]
  /\ how' = [how EXCEPT ![t] = st]
  /\ enq' = Append(enq, <<t, runs[t] + 1>>)
  /\ pc' = [pc EXCEPT ![t] = "continue_with"]
  /\ UNCHANGED <<variant, nFree, w, ret, log, obs, execIn, destroyedBy, threaded, failed>>

\* ---- the caller, once Run has returned Mem(r) ----

\* threaded, assign: mem = std::move(result), and the temporary dies empty;
\* plain: the result is a temporary and ~Mem frees what it holds
Returned(t, r, h, nf, fl) ==
  /\ IF how[t] = "plain"
       THEN /\ heap' = MemDtor(h, r)
            /\ nFree' = IF r # NULL THEN nf + 1 ELSE nf
            /\ failed' = fl \cup (IF r # NULL THEN DeleteFault(h, r) ELSE {})
            /\ UNCHANGED mem
       ELSE /\ mem' = [mem EXCEPT ![t] = MemAssign(@, r)]
            /\ heap' = h
            /\ nFree' = nf
            /\ failed' = fl
  /\ threaded' = [threaded EXCEPT ![t] = @ /\ how[t] = "threaded"]
  /\ how' = [how EXCEPT ![t] = "none"]
  /\ ret' = [ret EXCEPT ![t] = NULL]
  /\ pc' = [pc EXCEPT ![t] = "idle"]

\* ---- Work::ContinueWith ----

\* mutant: the producer takes over whatever it observed
HandoffAlways(old) == TRUE

\* if (Work* w = next_.exchange(next)): the producer takes over
Handoff(old) == old # NULL

ContinueWith(t) ==
  /\ pc[t] = "continue_with"
  /\ \E old \in ObservedNext(prev[t]) :
       /\ next' = [next EXCEPT ![prev[t]] = work[t]]
       /\ obs' = [obs EXCEPT ![Cur(t)] = Kind(old)]
       /\ IF Handoff(old)
            THEN /\ live' = [live EXCEPT ![prev[t]] = "dead"]
                 /\ destroyedBy' = DestroyRec(prev[t], t, "producer", Kind(old))
                 /\ failed' = failed \cup Touch(prev[t]) \cup Touch(work[t])
                                \cup DestroyFault(prev[t], work[t])
                                \cup (IF old = Sealed THEN {} ELSE {"ContinueWith_assert"})
                 /\ w' = [w EXCEPT ![t] = work[t]]
                 /\ ret' = [ret EXCEPT ![t] = prev[t]]
                 /\ pc' = [pc EXCEPT ![t] = "invoking"]
                 /\ UNCHANGED <<heap, nFree, mem, how, threaded>>
            ELSE /\ Returned(t, NULL, heap, nFree, failed \cup Touch(prev[t]))
                 /\ UNCHANGED <<live, destroyedBy, w>>
  /\ work' = [work EXCEPT ![t] = NULL]
  /\ prev' = [prev EXCEPT ![t] = NULL]
  /\ UNCHANGED <<variant, tail, act, nAlloc, runs, enq, log, execIn>>

\* ---- Work::RunAll ----

\* mutant: the executor loads next_ instead of exchanging it
SealedNextLoadOnly(old) == old

\* what next_ holds after w->next_.exchange(Sealed()) returned `old`
SealedNext(old) == Sealed

\* mutant: the executor runs one action and stops
HasSuccessorNever(old) == FALSE

\* if (Work* next = w->next_.exchange(Sealed())): the loop goes on
HasSuccessor(old) == old # NULL

\* The action of w[p] returns, then the seal exchange gives `old`; `free`
\* says whether the loop deletes the slab of the node it destroyed.
AfterSeal(p, old, free) ==
  /\ next' = [next EXCEPT ![w[p]] = SealedNext(old)]
  /\ log' = Append(log, act[w[p]])
  /\ execIn' = [execIn EXCEPT ![act[w[p]]] = Cur(p)]
  /\ IF HasSuccessor(old)
       THEN /\ live' = [live EXCEPT ![w[p]] = "dead"]
            /\ destroyedBy' = DestroyRec(w[p], p, "executor", Kind(old))
            /\ failed' = failed \cup Touch(w[p]) \cup DestroyFault(w[p], SealedNext(old))
                           \cup (IF old # Sealed THEN {} ELSE {"RunAll_assert"})
                           \cup (IF free THEN DeleteFault(heap, w[p]) ELSE {})
                           \cup (IF old \in Slabs THEN Touch(old) ELSE {"wild_pointer"})
            /\ heap' = IF free THEN Delete(heap, w[p]) ELSE heap
            /\ nFree' = IF free THEN nFree + 1 ELSE nFree
            /\ w' = [w EXCEPT ![p] = old]
            /\ pc' = [pc EXCEPT ![p] = IF old \in Slabs THEN "invoking" ELSE "crashed"]
            /\ UNCHANGED <<mem, how, threaded, ret>>
       ELSE /\ w' = [w EXCEPT ![p] = NULL]
            /\ IF p = Main
                 THEN /\ pc' = [pc EXCEPT ![p] = "constructed"]
                      /\ failed' = failed \cup Touch(w[p])
                      /\ UNCHANGED <<heap, nFree, mem, how, threaded, ret>>
                 ELSE Returned(p, ret[p], heap, nFree, failed \cup Touch(w[p]))
            /\ UNCHANGED <<live, destroyedBy>>
  /\ UNCHANGED <<variant, tail, act, nAlloc, work, prev, runs, enq, obs>>

\* the loop of the header: Destroy() and nothing else
RunAll(p) ==
  /\ pc[p] = "invoking"
  /\ variant = "RunAll"
  /\ \E old \in ObservedNext(w[p]) : AfterSeal(p, old, FALSE)

\* the out-of-line loop: Destroy() and ::operator delete(w, 64)
RunAllSlow(p) ==
  /\ pc[p] = "invoking"
  /\ variant = "RunAllSlow"
  /\ \E old \in ObservedNext(w[p]) : AfterSeal(p, old, TRUE)

\* ---- Work::RunAllSlow with the acquire load ----

\* The builds whose header keeps the hot path (the first action and its seal
\* exchange) and hands the rest to an out-of-line RunAllSlow(w, next): the
\* loop that exchanges after every action, and the one that first follows
\* the successors already linked with an acquire load.
SlowVariants == {"RunAllSlow", "RunAllSlowLoad"}

\* w->Destroy(); ::operator delete(w, 64); w = next; with nx what next_ of w
\* holds and old the successor
Advance(p, old, nx) ==
  /\ live' = [live EXCEPT ![w[p]] = "dead"]
  /\ destroyedBy' = DestroyRec(w[p], p, "executor", Kind(old))
  /\ failed' = failed \cup Touch(w[p]) \cup DestroyFault(w[p], nx)
                 \cup (IF old # Sealed THEN {} ELSE {"RunAll_assert"})
                 \cup DeleteFault(heap, w[p])
                 \cup (IF old \in Slabs THEN Touch(old) ELSE {"wild_pointer"})
  /\ heap' = Delete(heap, w[p])
  /\ nFree' = nFree + 1
  /\ w' = [w EXCEPT ![p] = old]
  /\ pc' = [pc EXCEPT ![p] = IF old \in Slabs THEN "slow" ELSE "crashed"]
  /\ UNCHANGED <<mem, how, threaded, ret>>

\* the loop ends and the call returns to its caller
Leave(p) ==
  /\ w' = [w EXCEPT ![p] = NULL]
  /\ IF p = Main
       THEN /\ pc' = [pc EXCEPT ![p] = "constructed"]
            /\ failed' = failed \cup Touch(w[p])
            /\ UNCHANGED <<heap, nFree, mem, how, threaded, ret>>
       ELSE Returned(p, ret[p], heap, nFree, failed \cup Touch(w[p]))
  /\ UNCHANGED <<live, destroyedBy>>

\* w->invoke_(w) has returned
Invoked(p) ==
  /\ log' = Append(log, act[w[p]])
  /\ execIn' = [execIn EXCEPT ![act[w[p]]] = Cur(p)]

\* the hot path: the first action of the call and its seal exchange
RunAllHot(p) ==
  /\ pc[p] = "invoking"
  /\ variant = "RunAllSlowLoad"
  /\ \E old \in ObservedNext(w[p]) :
       /\ next' = [next EXCEPT ![w[p]] = SealedNext(old)]
       /\ Invoked(p)
       /\ IF HasSuccessor(old) THEN Advance(p, old, SealedNext(old)) ELSE Leave(p)
  /\ UNCHANGED <<variant, tail, act, nAlloc, work, prev, runs, enq, obs>>

\* while (next), on the value of next_.load(acquire)
Linked(old) == old # NULL

\* the inner loop: the action returns, then the acquire load gives `old`
RunAllSlowLoad(p) ==
  /\ pc[p] = "slow"
  /\ \E old \in ObservedNext(w[p]) :
       /\ Invoked(p)
       /\ IF Linked(old)
            THEN Advance(p, old, old)
            ELSE /\ pc' = [pc EXCEPT ![p] = "sealing"]
                 /\ failed' = failed \cup Touch(w[p])
                 /\ UNCHANGED <<live, destroyedBy, heap, nFree, w, mem, how,
                                threaded, ret>>
  /\ UNCHANGED <<variant, tail, next, act, nAlloc, work, prev, runs, enq, obs>>

\* mutant: the executor trusts the load and leaves after storing SEALED
ContinuesNever(old) == FALSE

\* while (next), on the value of next_.exchange(Sealed())
Continues(old) == old # NULL

\* the load gave NULL: next = w->next_.exchange(Sealed())
RunAllSlowSeal(p) ==
  /\ pc[p] = "sealing"
  /\ \E old \in ObservedNext(w[p]) :
       /\ next' = [next EXCEPT ![w[p]] = SealedNext(old)]
       /\ IF Continues(old) THEN Advance(p, old, SealedNext(old)) ELSE Leave(p)
  /\ UNCHANGED <<variant, tail, act, nAlloc, work, prev, runs, enq, log, obs,
                 execIn>>

\* ---- the threads end, each Mem going out of scope, and the owner of the
\* chain joins them ----

RECURSIVE FreeAll(_, _)
FreeAll(h, ps) ==
  IF ps = {} THEN h
  ELSE LET s == CHOOSE x \in ps : TRUE IN FreeAll(MemDtor(h, s), ps \ {s})

Holders == {t \in Threads : mem[t] # NULL}

Held == {mem[t] : t \in Holders}

Join ==
  /\ pc[Main] = "constructed"
  /\ \A t \in Threads : pc[t] = "idle"
  /\ heap' = FreeAll(heap, Held)
  /\ nFree' = nFree + Cardinality(Holders)
  /\ failed' = failed \cup UNION {DeleteFault(heap, s) : s \in Held}
                  \cup (IF Cardinality(Held) = Cardinality(Holders)
                        THEN {} ELSE {"bad_delete"})
  /\ mem' = [t \in Threads |-> NULL]
  /\ pc' = [p \in Procs |-> IF p = Main THEN "joined" ELSE "done"]
  /\ UNCHANGED <<variant, tail, next, live, act, nAlloc, work, prev, w, ret, runs,
                 how, enq, log, obs, execIn, destroyedBy, threaded>>

\* ---- ActionChain::~ActionChain ----

Destructor ==
  /\ pc[Main] = "joined"
  /\ live' = [live EXCEPT ![tail] = "dead"]
  /\ destroyedBy' = DestroyRec(tail, Main, "destructor", Kind(next[tail]))
  /\ failed' = failed \cup DestroyFault(tail, next[tail]) \cup DeleteFault(heap, tail)
  /\ heap' = Delete(heap, tail)
  /\ nFree' = nFree + 1
  /\ pc' = [pc EXCEPT ![Main] = "destroyed"]
  /\ UNCHANGED <<variant, tail, next, act, nAlloc, locals, enq, log, obs, execIn,
                 threaded>>

Next ==
  \/ \E t \in Threads, st \in Styles : Run(t, st)
  \/ \E t \in Threads : ContinueWith(t)
  \/ \E p \in Procs : RunAll(p)
  \/ \E p \in Procs : RunAllSlow(p)
  \/ Join
  \/ Destructor

Spec == Init /\ [][Next]_vars

\* Every thread that is inside a call keeps being scheduled, and actions
\* terminate.
InCall(p) == ContinueWith(p) \/ RunAll(p) \/ RunAllSlow(p)

FairSpec == Spec /\ \A p \in Procs : WF_vars(InCall(p))

InitSlow == variant \in SlowVariants /\ Constructing

NextSlow ==
  \/ \E t \in Threads, st \in Styles : Run(t, st)
  \/ \E t \in Threads : ContinueWith(t)
  \/ \E p \in Procs : RunAllSlow(p)
  \/ \E p \in Procs : RunAllHot(p)
  \/ \E p \in Procs : RunAllSlowLoad(p)
  \/ \E p \in Procs : RunAllSlowSeal(p)
  \/ Join
  \/ Destructor

SpecSlow == InitSlow /\ [][NextSlow]_vars

TypeOK ==
  /\ tail \in Slabs
  /\ next \in [Slabs -> NextVals]
  /\ heap \subseteq Slabs

\* ---- vocabulary of the properties ----

Range(q) == {q[i] : i \in 1..Len(q)}

Occurrences(q, a) == Cardinality({i \in 1..Len(q) : q[i] = a})

\* position of a submitted action in the exchange order (0: not yet there)
Pos(a) == IF a \in Range(enq) THEN CHOOSE i \in 1..Len(enq) : enq[i] = a ELSE 0

\* the order the chain is to run in: the sentinel, then the exchange order
Order == <<Sentinel>> \o enq

InRun(t) == pc[t] \in {"continue_with", "invoking", "slow", "sealing"}

\* the Run call that submitted a has returned
HasReturned(a) == a[2] < runs[a[1]] \/ (a[2] = runs[a[1]] /\ ~InRun(a[1]))

Quiescent == pc[Main] # "invoking" /\ \A t \in Threads : ~InRun(t)

Executors == {p \in Procs : pc[p] = "invoking"}

Callers == {t \in Threads : runs[t] > 0}

\* C1: every submitted action is executed exactly once: never twice, never
\* an action nobody submitted, and once no thread is inside Run every
\* submitted action has been executed.
C1_ExactlyOnce ==
  /\ \A a \in Actions : Occurrences(log, a) <= 1
  /\ Range(log) \subseteq Submitted \cup {Sentinel}
  /\ Quiescent => \A a \in Submitted : Occurrences(log, a) = 1

\* three threads have called Run, one of them has run another's action,
\* and all calls have returned
C1_Witness ==
  /\ Quiescent
  /\ Cardinality(Callers) = MaxActions
  /\ Len(log) = MaxActions + 1
  /\ \E a \in Submitted : execIn[a] # a

\* C2: at most one action of the chain is in progress at any time.
C2_MutualExclusion == Cardinality(Executors) <= 1

\* an action is in progress while another thread is between its exchange on
\* tail_ and its exchange on the predecessor's next_, and a third thread's
\* call has already returned with its action still to run
C2_Witness ==
  \E p \in Threads, t \in Threads, u \in Threads :
    /\ pc[p] = "invoking"
    /\ pc[t] = "continue_with"
    /\ pc[u] = "idle" /\ runs[u] > 0 /\ Cur(u) \notin Range(log)

\* C3: actions run in the order of their exchanges on tail_: what has
\* completed is an initial part of that order, an action in progress is the
\* next one in it, and the actions of one thread complete in program order.
C3_ExchangeOrder ==
  /\ Len(log) <= Len(Order)
  /\ \A i \in 1..Len(log) : log[i] = Order[i]
  /\ \A p \in Executors :
       Len(log) < Len(Order) /\ act[w[p]] = Order[Len(log) + 1]
  /\ \A i \in 1..Len(log), j \in 1..Len(log) :
       (i < j /\ log[i][1] = log[j][1]) => log[i][2] < log[j][2]

\* two threads, the second of which won an exchange between two exchanges
\* of the first, and all three actions have completed
C3_Witness ==
  /\ Len(log) = MaxActions + 1
  /\ \E i \in 1..Len(enq) - 2 :
       enq[i][1] = enq[i + 2][1] /\ enq[i][1] # enq[i + 1][1]

\* the actions whose Run call has returned before they ran
HandedOff == {a \in Submitted : HasReturned(a) /\ a \notin Range(log)}

\* C4 as stated: whenever a Run call has returned with its action not yet
\* run, another thread is in the executor role; and when no thread is inside
\* Run every submitted action has run.
C4_ExecutorPresent ==
  /\ \A a \in HandedOff : \E u \in Threads \ {a[1]} : pc[u] = "invoking"
  /\ Quiescent => Submitted \subseteq Range(log)

\* C4: whenever a Run call has returned with its action not yet run,
\* another thread is inside Run on the chain and the action is ahead of it:
\* either it is the executor, at a node not after the action's, or it has
\* made its exchange on tail_ before the action's and not yet its exchange
\* on the predecessor's next_ (the executor that sealed that predecessor has
\* already left); and when no thread is inside Run every submitted action
\* has run.
C4_HandedOffIsCovered ==
  /\ \A a \in HandedOff :
       \E u \in Threads \ {a[1]} :
          \/ pc[u] = "invoking" /\ Pos(act[w[u]]) \in 1..Pos(a)
          \/ pc[u] = "continue_with" /\ Pos(Cur(u)) \in 1..(Pos(a) - 1)
  /\ Quiescent => Submitted \subseteq Range(log)

\* a call has returned with its action still to run, the executor has
\* sealed its last node and left, and the thread that is to take over has
\* not yet made its exchange on that node
C4_Witness ==
  /\ HandedOff # {}
  /\ Executors = {}
  /\ \E u \in Threads : pc[u] = "continue_with" /\ next[prev[u]] = Sealed

\* C5: with every thread inside a call scheduled again and again, every
\* action whose node was published by the exchange on tail_ is eventually
\* run, and every Run call eventually returns.
C5_EventuallyRun ==
  /\ \A k \in 1..MaxActions :
       (Len(enq) >= k) ~> (Len(enq) >= k /\ enq[k] \in Range(log))
  /\ \A t \in Threads : InRun(t) ~> ~InRun(t)

\* an action that was handed off has been run by another thread's call,
\* and everything published has run
C5_Witness ==
  /\ \E a \in Submitted : a \in Range(log) /\ execIn[a][1] # a[1]
  /\ Len(log) = MaxActions + 1
  /\ Quiescent

\* the nodes made so far, each named by the action it carries
Nodes == Submitted \cup {Sentinel}

\* the action published right after a in the exchange order
Successor(a) == Order[Pos(a) + 2]

\* C6: every node is destroyed at most once, and exactly once by the time
\* the chain is gone; the executor destroys a node when its seal exchange
\* returned a successor, and it is the thread that ran the node's action; a
\* producer destroys a node when its ContinueWith exchange returned SEALED,
\* and it is the thread whose node follows; the destructor destroys the
\* node tail_ points to, which is the last one published.
C6_DestroyedOnce ==
  /\ \A a \in Actions : Len(destroyedBy[a]) <= 1
  /\ \A a \in Actions \ Nodes : destroyedBy[a] = <<>>
  /\ pc[Main] = "destroyed" => \A a \in Nodes : Len(destroyedBy[a]) = 1
  /\ \A a \in Nodes : destroyedBy[a] # <<>> =>
       LET d == destroyedBy[a][1] IN
         \/ /\ d[2] = "executor"
            /\ d[3] = "succ"
            /\ a \in Range(log)
            /\ d[1] = execIn[a][1]
         \/ /\ d[2] = "producer"
            /\ d[3] = "SEALED"
            /\ Pos(a) < Len(enq)
            /\ d[1] = Successor(a)[1]
         \/ /\ d[2] = "destructor"
            /\ d[1] = Main
            /\ a = Order[Len(Order)]
            /\ a = act[tail]

\* the chain is gone and its nodes went all three ways
C6_Witness ==
  /\ pc[Main] = "destroyed"
  /\ \E a \in Nodes : destroyedBy[a] # <<>> /\ destroyedBy[a][1][2] = "executor"
  /\ \E a \in Nodes \ {Sentinel} :
       destroyedBy[a] # <<>> /\ destroyedBy[a][1][2] = "producer"
  /\ destroyedBy[act[tail]][1][2] = "destructor"

\* C7 as stated: once every Run call has returned, every Mem is destroyed
\* and the chain is destroyed, as many slabs have been freed as were
\* allocated.
C7_NoLeak == pc[Main] = "destroyed" => nFree = nAlloc

\* only one thread has called Run so far
SingleThread == Callers \subseteq {1}

\* C8: while only one thread has called Run, every call finds its
\* predecessor sealed, runs its own action and no other before it returns,
\* so the actions complete in call order, each inside its own call.
C8_SingleThreadSynchronous ==
  SingleThread =>
    /\ \A a \in Submitted :
         /\ obs[a] \in {"none", "SEALED"}
         /\ obs[a] = "none" => (a = Cur(1) /\ pc[1] = "continue_with")
         /\ a \in Range(log) => execIn[a] = a
         /\ HasReturned(a) => a \in Range(log)
    /\ \A i \in 1..Len(log) : log[i] = IF i = 1 THEN Sentinel ELSE <<1, i - 1>>
    /\ Len(log) \in {runs[1], runs[1] + 1}

\* one thread has made MaxActions calls, all returned
C8_Witness ==
  /\ SingleThread
  /\ runs[1] = MaxActions
  /\ pc[1] = "idle"
  /\ Len(log) = MaxActions + 1

\* the one thread threads its one Mem through all its calls
Threading == SingleThread /\ threaded[1] /\ how[1] \in {"none", "threaded"}

\* C9: one thread threading one Mem, empty at first, through N >= 1 calls
\* allocates two slabs in all, the sentinel's and the first action's; every
\* call hands back a slab, which the next call uses.
C9_TwoAllocations ==
  (Threading /\ runs[1] >= 1) =>
    /\ nAlloc = 2
    /\ pc[1] = "idle" => mem[1] # NULL
    /\ InRun(1) => mem[1] = NULL

\* the third call of such a thread is under way
C9_Witness == Threading /\ runs[1] = MaxActions /\ pc[1] = "invoking"

\* the first call of a single thread, made with its Mem, has returned
FirstCallDone ==
  SingleThread /\ runs[1] = 1 /\ pc[1] = "idle" /\ threaded[1]

\* C10 as stated: the single action of a single thread runs inside its Run
\* call and no slab is allocated beyond the sentinel's.
C10_NoAllocation ==
  FirstCallDone => (log = <<Sentinel, <<1, 1>>>> /\ execIn[<<1, 1>>] = <<1, 1>>
                    /\ nAlloc = 1)

\* C10: the single action of a single thread runs inside its Run call; the
\* Mem of a first call being empty, one slab is allocated for the action's
\* node beyond the sentinel's, and the call hands back the sentinel's slab.
C10_OneAllocationRecycled ==
  FirstCallDone => (log = <<Sentinel, <<1, 1>>>> /\ execIn[<<1, 1>>] = <<1, 1>>
                    /\ nAlloc = 2 /\ nFree = 0 /\ mem[1] = 1)

C10_Witness == FirstCallDone /\ Len(log) = 2

\* the last call of t has returned, it found its predecessor sealed, and t
\* has threaded its Mem through all its calls
SealedLast(t) ==
  pc[t] = "idle" /\ runs[t] >= 1 /\ threaded[t] /\ obs[Cur(t)] = "SEALED"

\* every thread threads its Mem, and every exchange in ContinueWith so far
\* has found a sealed predecessor
AllSealed ==
  /\ \A t \in Threads : threaded[t] /\ how[t] \in {"none", "threaded"}
  /\ \A a \in Submitted : obs[a] \in {"none", "SEALED"}

\* C11: a thread whose previous Run on its Mem found a sealed predecessor
\* holds that predecessor's slab in the Mem, and its next Run with the Mem
\* builds the node in that slab and allocates nothing; so while every call
\* finds a sealed predecessor the only allocations are the sentinel's and one
\* per thread, for its first call.
C11_RecycledNoAllocation ==
  /\ [](\A t \in Threads :
          SealedLast(t) => (mem[t] \in heap /\ live[mem[t]] = "dead"))
  /\ [][\A t \in Threads :
          (SealedLast(t) /\ Run(t, "threaded")) =>
             (nAlloc' = nAlloc /\ work'[t] = mem[t] /\ heap' = heap)]_vars
  /\ [](AllSealed => nAlloc = 1 + Cardinality(Callers))

\* two threads, every call of which found a sealed predecessor; one of them
\* is in its second call, made with the slab its first call handed back
C11_Witness ==
  /\ AllSealed
  /\ Cardinality(Callers) = 2
  /\ \E t \in Threads :
       /\ runs[t] = 2 /\ how[t] = "threaded" /\ pc[t] = "invoking"
       /\ obs[<<t, 1>>] = "SEALED" /\ obs[<<t, 2>>] = "SEALED"
  /\ nAlloc = 3

\* C12: a thread inside Run is never held up by another thread: whenever it
\* is about to make its exchange on the predecessor's next_, or is in the
\* executor loop, that step can be taken; and of its own steps the first is
\* the exchange on tail_, the second the exchange on the predecessor's
\* next_, after which it has returned or is in the executor loop.
C12_WaitFree ==
  /\ [](\A t \in Threads :
          /\ pc[t] = "continue_with" => ENABLED ContinueWith(t)
          /\ pc[t] = "invoking" => ENABLED (RunAll(t) \/ RunAllSlow(t)))
  /\ [][\A t \in Threads :
          /\ (pc[t] = "idle" /\ pc'[t] # "idle" /\ pc'[t] # "done") =>
               (pc'[t] = "continue_with" /\ tail' = work'[t] /\ prev'[t] = tail)
          /\ (pc[t] = "continue_with" /\ pc'[t] # "continue_with") =>
               (pc'[t] \in {"idle", "invoking"} /\ next'[prev[t]] = work[t])]_vars

\* a thread is about to make its exchange on a predecessor that is not yet
\* sealed, while another thread is running that predecessor's action
C12_Witness ==
  \E t \in Threads, u \in Threads :
    /\ pc[t] = "continue_with" /\ next[prev[t]] = NULL
    /\ pc[u] = "invoking" /\ w[u] = prev[t]

\* the moves of next_ that go forward in NULL -> successor -> SEALED
Forward(old, new) ==
  \/ new = old
  \/ Kind(old) = "NULL"
  \/ Kind(old) = "succ" /\ new = Sealed

\* C13 as stated: the next_ of a node only moves along NULL -> successor ->
\* SEALED or NULL -> SEALED; no step moves it from SEALED to a successor, or
\* from a successor or SEALED to NULL.
C13_NextMonotonic ==
  [][\A s \in Slabs :
       (live[s] = "live" /\ act'[s] = act[s]) => Forward(next[s], next'[s])]_vars

\* the chain is constructed and no Run has been called
Constructed == pc[Main] = "constructed" /\ runs = [p \in Procs |-> 0]

\* C14 as stated: after construction and before any Run, tail_ points to the
\* sentinel, whose action has run and whose next_ is NULL.
C14_SentinelNull ==
  Constructed =>
    (act[tail] = Sentinel /\ live[tail] = "live" /\ log = <<Sentinel>>
     /\ next[tail] = NULL)

\* C14: after construction and before any Run, tail_ points to the sentinel,
\* whose action has run and whose next_ is SEALED: the constructor's RunAll
\* sealed it, so that the first Run takes over the chain.
C14_SentinelSealed ==
  Constructed =>
    (act[tail] = Sentinel /\ live[tail] = "live" /\ log = <<Sentinel>>
     /\ next[tail] = Sealed)

C14_Witness == Constructed /\ w[Main] = NULL /\ heap = {tail}

\* C15: as long as the chain exists, tail_ is not null and points to a node
\* that is live, is the last one published, and has next_ NULL or SEALED,
\* never a successor.
C15_TailIsEnd ==
  pc[Main] # "destroyed" =>
    /\ tail # NULL
    /\ tail \in heap
    /\ live[tail] = "live"
    /\ act[tail] = Order[Len(Order)]
    /\ next[tail] \in {NULL, Sealed}

\* every call has been made, the node before the last is linked to the
\* last, and the last has not been run yet
C15_Witness ==
  /\ Len(enq) = MaxActions
  /\ next[tail] = NULL
  /\ \E s \in Slabs : live[s] = "live" /\ next[s] = tail

\* C16: at most one thread is in the executor loop at any time; a thread
\* leaves the loop only by a seal exchange that found NULL, and a thread
\* enters it only when nobody is in it, by a ContinueWith exchange that
\* found SEALED on the node the last executor sealed when it left.
C16_OneExecutor ==
  /\ [](Cardinality(Executors) <= 1)
  /\ [][\A p \in Procs :
          /\ (pc[p] = "invoking" /\ pc'[p] # "invoking") =>
               /\ next[w[p]] = NULL
               /\ next'[w[p]] = Sealed
               /\ Executors' = {}
          /\ (pc[p] # "invoking" /\ pc'[p] = "invoking") =>
               /\ Executors = {}
               /\ pc[p] = "continue_with"
               /\ next[prev[p]] = Sealed
               /\ act[prev[p]] = log[Len(log)]
               /\ destroyedBy[act[prev[p]]] = <<>>
               /\ w'[p] = work[p]]_vars

\* a thread is in the executor loop, which it entered on the node another
\* thread's call had sealed last
C16_Witness ==
  \E t \in Threads, u \in Threads :
    /\ t # u
    /\ pc[u] = "invoking"
    /\ obs[Cur(u)] = "SEALED"
    /\ Len(log) >= 2
    /\ execIn[log[Len(log)]][1] = t
    /\ act[w[u]] = Cur(u)

\* C17: the exchange in ContinueWith finds NULL or SEALED in the
\* predecessor, never a successor: the predecessor is the live node
\* published just before the caller's, no other thread has the same one,
\* and no call has observed anything else.
C17_LinkObservesEnd ==
  /\ \A a \in Actions : obs[a] \in {"none", "NULL", "SEALED"}
  /\ "ContinueWith_assert" \notin failed
  /\ \A t \in Threads : pc[t] = "continue_with" =>
       /\ live[prev[t]] = "live"
       /\ next[prev[t]] \in {NULL, Sealed}
       /\ act[prev[t]] = Order[Pos(Cur(t))]
       /\ act[work[t]] = Cur(t)
  /\ \A t \in Threads, u \in Threads :
       (t # u /\ pc[t] = "continue_with" /\ pc[u] = "continue_with") =>
          prev[t] # prev[u]

\* two threads are about to make the exchange, one on a sealed predecessor
\* and one on a predecessor not yet run; an earlier call found NULL
C17_Witness ==
  /\ \E t \in Threads, u \in Threads :
       /\ pc[t] = "continue_with" /\ next[prev[t]] = Sealed
       /\ pc[u] = "continue_with" /\ next[prev[u]] = NULL
  /\ \E a \in Submitted : obs[a] = "SEALED"

\* C18: the seal exchange is never made on a node whose next_ is SEALED
\* already: the node the executor is at is live and holds NULL or its
\* successor, and no node is run, and so sealed, twice.
C18_NeverSealedTwice ==
  /\ \A p \in Executors : live[w[p]] = "live" /\ next[w[p]] # Sealed
  /\ "RunAll_assert" \notin failed
  /\ \A a \in Actions : Occurrences(log, a) <= 1
  /\ \A s \in Slabs : (live[s] = "live" /\ next[s] = Sealed) => act[s] = log[Len(log)]

\* the executor is at a node that already has its successor, after a thread
\* has taken over a node sealed earlier
C18_Witness ==
  /\ \E p \in Threads : pc[p] = "invoking" /\ next[w[p]] \in Slabs
  /\ \E a \in Submitted : obs[a] = "SEALED"
  /\ Len(log) >= 2

\* the faults of a thread that uses a node after its lifetime has ended
LifetimeFaults == {"use_after_destroy", "double_destroy", "wild_pointer", "bad_delete"}

\* the node pointers thread p holds
Pointers(p) == {work[p], prev[p], w[p]} \ {NULL}

\* the slabs of destroyed nodes on their way back to a caller or in a Mem
Recycled == ({ret[p] : p \in Procs} \cup {mem[t] : t \in Threads}) \ {NULL}

\* C19: no thread reads or exchanges next_ of, invokes or destroys a node
\* after the node was destroyed: every node pointer a thread holds is to a
\* live node in an allocated slab, no thread points into a slab that is on
\* its way back through a Mem, and a thread keeps no pointer once it has
\* returned or left the executor loop.
C19_NoUseAfterDestroy ==
  /\ failed \cap LifetimeFaults = {}
  /\ \A p \in Procs :
       /\ pc[p] # "crashed"
       /\ \A s \in Pointers(p) : live[s] = "live" /\ s \in heap /\ s \notin Recycled
       /\ pc[p] # "continue_with" => (prev[p] = NULL /\ work[p] = NULL)
       /\ pc[p] # "invoking" => w[p] = NULL
  /\ \A s \in Recycled : live[s] = "dead"
  /\ \A p \in Procs, q \in Procs : (p # q /\ ret[p] # NULL) => ret[p] # ret[q]

\* a thread holds the slab of a node it destroyed in its Mem, a node has
\* been destroyed by the executor that passed it, and another thread is in
\* the executor loop
C19_Witness ==
  /\ \E t \in Threads, u \in Threads :
       t # u /\ mem[t] # NULL /\ pc[t] = "idle" /\ pc[u] = "invoking"
  /\ \E a \in Nodes : destroyedBy[a] # <<>> /\ destroyedBy[a][1][2] = "executor"

\* the actions that ran inside the Run call that submitted c
RanIn(c) == {b \in Range(log) : execIn[b] = c}

\* C20: a Run call whose ContinueWith found SEALED runs its own action and
\* then the actions that follow it in the exchange order, with none left
\* out, and returns only by a seal exchange that found NULL; a Run call
\* whose ContinueWith found NULL runs no action.
C20_ExecutesOwnSegment ==
  /\ [](\A c \in Submitted :
          /\ obs[c] \in {"none", "NULL"} => RanIn(c) = {}
          /\ obs[c] = "SEALED" =>
               /\ Pos(c) + Cardinality(RanIn(c)) - 1 <= Len(enq)
               /\ RanIn(c) = {enq[i] : i \in Pos(c)..(Pos(c) + Cardinality(RanIn(c)) - 1)}
               /\ HasReturned(c) => c \in RanIn(c))
  /\ [][\A t \in Threads :
          (pc[t] = "invoking" /\ pc'[t] # "invoking") =>
             (next[w[t]] = NULL /\ next'[w[t]] = Sealed /\ pc'[t] = "idle")]_vars

\* a call that found SEALED has run its own action and two more and has
\* returned; the calls that submitted those found NULL
C20_Witness ==
  \E c \in Submitted :
    /\ obs[c] = "SEALED" /\ HasReturned(c)
    /\ Cardinality(RanIn(c)) = MaxActions
    /\ \A b \in Submitted \ {c} : obs[b] = "NULL"

\* the node published just before the one of action a
Predecessor(a) == Order[Pos(a)]

\* thread t passes its Mem to every Run and takes the result back into it
PassesMem(t) == threaded[t] /\ how[t] \in {"none", "threaded"} /\ runs[t] >= 1

\* slab s holds the destroyed predecessor of the node of t's current call
PredecessorSlab(t, s) ==
  /\ s \in heap
  /\ live[s] = "dead"
  /\ act[s] = Predecessor(Cur(t))
  /\ destroyedBy[act[s]] = <<<<t, "producer", "SEALED">>>>

\* C21: Run(mem, action) leaves the caller with a slab exactly when its
\* ContinueWith found SEALED, and the slab is that of the predecessor it
\* destroyed, not that of a live node; when ContinueWith found NULL the
\* caller gets nothing and its Mem, emptied by the call, stays empty.
C21_SlabIffSealed ==
  \A t \in Threads : PassesMem(t) =>
    /\ InRun(t) => mem[t] = NULL
    /\ pc[t] = "invoking" =>
         (obs[Cur(t)] = "SEALED" /\ PredecessorSlab(t, ret[t]))
    /\ pc[t] = "idle" =>
         /\ obs[Cur(t)] = "SEALED" <=> mem[t] # NULL
         /\ obs[Cur(t)] \in {"SEALED", "NULL"}
         /\ mem[t] # NULL => PredecessorSlab(t, mem[t])

\* one thread's last call found SEALED and left it a slab, another's
\* second call, made with a slab, found NULL and left it none
C21_Witness ==
  \E t \in Threads, u \in Threads :
    /\ PassesMem(t) /\ pc[t] = "idle" /\ obs[Cur(t)] = "SEALED" /\ mem[t] # NULL
    /\ PassesMem(u) /\ pc[u] = "idle" /\ obs[Cur(u)] = "NULL" /\ mem[u] = NULL
    /\ runs[u] = 2 /\ obs[<<u, 1>>] = "SEALED"

\* C22 as stated: a node the executor destroys inside its loop has its slab
\* freed by the executor in that step, and no step of the executor loop
\* puts a slab into a Mem or takes one out.
C22_ExecutorFrees ==
  [][\A p \in Procs :
       (pc[p] = "invoking" /\ (RunAll(p) \/ RunAllSlow(p))) =>
          /\ live'[w[p]] = "dead" =>
               (w[p] \notin heap' /\ nFree' = nFree + 1)
          /\ pc'[p] = "invoking" => mem' = mem]_vars

\* the slabs that hold a live node
LiveNodes == {s \in Slabs : live[s] = "live"}

\* C23: whenever no thread is inside Run and the chain exists, exactly one
\* node is live: the one tail_ points to, whose action has run and whose
\* next_ is SEALED; so the Destroy of the destructor finds next_ SEALED, and
\* once the destructor has run no node is live and the slab of the last
\* node is freed.
C23_OneSealedNodeLeft ==
  /\ (Quiescent /\ pc[Main] \in {"constructed", "joined"}) =>
       /\ LiveNodes = {tail}
       /\ tail \in heap
       /\ act[tail] = log[Len(log)]
       /\ next[tail] = Sealed
  /\ pc[Main] = "destroyed" =>
       /\ LiveNodes = {}
       /\ tail \notin heap
       /\ destroyedBy[act[tail]] = <<<<Main, "destructor", "SEALED">>>>

\* the chain has been destroyed after three threads' calls, one of which
\* found NULL and one SEALED
C23_Witness ==
  /\ pc[Main] = "destroyed"
  /\ Cardinality(Callers) = MaxActions
  /\ \E a \in Submitted : obs[a] = "NULL"
  /\ \E a \in Submitted \ {<<1, 1>>} : obs[a] = "SEALED"

\* the slabs a Run call returned to its caller that are in no Mem and on
\* their way to none, and have been neither reused nor freed
Lost ==
  {s \in heap : /\ live[s] = "dead"
                /\ destroyedBy[act[s]] # <<>>
                /\ destroyedBy[act[s]][1][2] = "producer"
                /\ s \notin Recycled}

\* C24 as stated: a Mem never loses a slab: every slab that entered a Mem
\* is in it, or was handed to a Run call, or was freed.
C24_MemNeverLoses == Lost = {}

\* C25 as stated: every Destroy is called on a node whose next_ is SEALED:
\* the assert of Destroy fails on no path.
C25_DestroyAssertHolds == "Destroy_assert" \notin failed

\* the threads in an executor loop, from taking a node to leaving
Drainers == {p \in Procs : pc[p] \in {"invoking", "slow", "sealing"}}

\* the positions up to that of a whose call took the chain over
Takeovers(a) == {i \in 1..Pos(a) : obs[enq[i]] = "SEALED"}

\* the Run call inside which a has to run: the last one up to a's own, in
\* the exchange order, whose ContinueWith found SEALED
Owner(a) ==
  IF Takeovers(a) = {} THEN NoRun
  ELSE enq[CHOOSE i \in Takeovers(a) : \A j \in Takeovers(a) : j <= i]

\* a has been started
Begun(a) == a \in Range(log) \/ \E p \in Drainers : act[w[p]] = a

\* the Destroy calls node a must have had, given what the producers'
\* exchanges found
Destroys(a) ==
  IF Pos(a) = Len(enq)
    THEN IF pc[Main] = "destroyed"
           THEN <<<<Main, "destructor", "SEALED">>>> ELSE <<>>
    ELSE LET b == Successor(a) IN
         IF obs[b] = "SEALED" THEN <<<<b[1], "producer", "SEALED">>>>
         ELSE IF obs[b] = "NULL" /\ Begun(b)
                THEN <<<<execIn[a][1], "executor", "succ">>>>
                ELSE <<>>

\* C26: the loop that follows linked successors with an acquire load and
\* exchanges SEALED only when the load gave NULL behaves as the loop that
\* exchanges after every action: with either, whatever the interleaving,
\* the actions run in the exchange order, each inside the call that took
\* the chain over last before it, all of them once no thread is inside Run;
\* each node has exactly the Destroy call the producers' exchanges
\* determine; no node is used after it was destroyed; at most one thread is
\* in the loop, and it leaves only by a seal exchange that found NULL.
C26_LoadLoopAsExchangeLoop ==
  /\ [](/\ Len(log) <= Len(Order)
        /\ \A i \in 1..Len(log) : log[i] = Order[i]
        /\ Quiescent => log = Order
        /\ \A a \in Range(log) \ {Sentinel} : execIn[a] = Owner(a)
        /\ \A a \in Nodes : destroyedBy[a] = Destroys(a)
        /\ failed \cap LifetimeFaults = {}
        /\ Cardinality(Drainers) <= 1)
  /\ [][\A p \in Procs :
          (p \in Drainers /\ p \notin Drainers') =>
             (next[w[p]] = NULL /\ next'[w[p]] = Sealed)]_vars

\* with the load loop, the executor has passed a node whose load gave NULL
\* and whose seal exchange then returned a successor linked in between, and
\* every action has run
C26_Witness ==
  /\ variant = "RunAllSlowLoad"
  /\ Len(log) = MaxActions + 1
  /\ \E s \in Slabs :
       /\ live[s] = "dead"
       /\ destroyedBy[act[s]] # <<>>
       /\ destroyedBy[act[s]][1][2] = "executor"
       /\ next[s] = Sealed
       /\ execIn[act[s]] # act[s]

====
